---- MODULE Spec2Model ----
(***************************************************************************)
(* A model of src/main.py: the Letterboxd top-250 scraper                  *)
(* (scrape_letterboxd_top250) and the GET /api/movies handler (get_movies) *)
(* with its process-wide cache slot (_cache).                              *)
(*                                                                         *)
(* Text is a sequence of one-character strings.  A Python value that may   *)
(* be None is a record [some, val]: None is [some |-> FALSE, val |-> <<>>].*)
(***************************************************************************)
EXTENDS Naturals, Sequences, FiniteSets

VARIABLES
    cache,       \* _cache["movies"]: None or a list of movie dicts
    fetchCount,  \* number of requests.get calls issued so far
    pc,          \* per worker thread: where it is in get_movies
    got,         \* per worker thread: what requests.get returned or raised in its
                 \* current call, kept until its next call begins
    resp,        \* per worker thread: the HTTP response of its last call
    alt,         \* the alt attribute under test (title/year split)
    parsed,      \* the (title, year) the split produced
    li,          \* the candidate element under test (field extraction)
    record,      \* the movies.append of that candidate: <<>> or <<dict>>
    movies,      \* the extracted list under test (dedup step)
    dedup        \* the list the dedup loop returned

vars == <<cache, fetchCount, pc, got, resp, alt, parsed, li, record, movies, dedup>>

\* ------------------------------------------------------------------ bounds

MaxAltLen == 4
MaxExtractAltLen == 3
MaxMovies == 3
MaxPageLen == 2
MaxFetch == 3
LongSlack == 2

\* ------------------------------------------------------- Python values

None == [some |-> FALSE, val |-> <<>>]

Some(v) == [some |-> TRUE, val |-> v]

\* bool(x) of an optional str or list: None and the empty value are falsy
Truthy(x) == x.some /\ x.val # <<>>

\* a or b
Or(a, b) == IF Truthy(a) THEN a ELSE b

\* str.strip() with no argument strips these; str.strip(") ") strips StripYearChars
Whitespace == {" ", "\t", "\n"}

StripYearChars == {")", " "}

RECURSIVE LStrip(_, _)
LStrip(s, chars) ==
    IF s # <<>> /\ Head(s) \in chars THEN LStrip(Tail(s), chars) ELSE s

RECURSIVE RStrip(_, _)
RStrip(s, chars) ==
    IF s # <<>> /\ s[Len(s)] \in chars
    THEN RStrip(SubSeq(s, 1, Len(s) - 1), chars)
    ELSE s

Strip(s, chars) == RStrip(LStrip(s, chars), chars)

EndsWith(s, c) == s # <<>> /\ s[Len(s)] = c

Contains(s, c) == \E i \in 1..Len(s) : s[i] = c

\* the index rsplit(c, 1) splits at: the last occurrence of c (0 when none)
LastIndexOf(s, c) ==
    IF Contains(s, c)
    THEN CHOOSE i \in 1..Len(s) : s[i] = c /\ \A j \in (i + 1)..Len(s) : s[j] # c
    ELSE 0

StartsWith(s, p) == Len(s) >= Len(p) /\ SubSeq(s, 1, Len(p)) = p

\* ------------------------------------------------ title / year split

\* lines 64-75 with img present: title = img.get("alt"), then the rsplit
SplitTitleYear(a) ==
    IF Truthy(a) /\ EndsWith(a.val, ")") /\ Contains(a.val, "(")
    THEN LET k == LastIndexOf(a.val, "(")
         IN [title |-> Some(Strip(SubSeq(a.val, 1, k - 1), Whitespace)),
             year |-> Some(Strip(SubSeq(a.val, k + 1, Len(a.val)), StripYearChars))]
    ELSE [title |-> a, year |-> None]

\* ------------------------------------------------- field extraction

SitePrefix == <<"https://letterboxd.com">>

HttpsPrefix == <<"https:">>

\* li.select_one("a.poster"), else li.select_one("a.frame"): <<>> or <<anchor>>
SelectAnchor(e) == IF e.poster # <<>> THEN e.poster ELSE e.frame

\* href = anchor.get("href") or ""; root-relative paths get the site prefix
LinkOf(anchor) ==
    LET href == Or(anchor.href, Some(<<>>)).val
    IN IF StartsWith(href, <<"/">>) THEN SitePrefix \o href ELSE href

\* img.get("data-src") or img.get("src"), protocol-relative gets "https:"
PosterOf(anchor) ==
    IF anchor.img = <<>>
    THEN None
    ELSE LET url == Or(anchor.img[1].dataSrc, anchor.img[1].src)
         IN IF Truthy(url) /\ StartsWith(url.val, <<"/", "/">>)
            THEN Some(HttpsPrefix \o url.val)
            ELSE url

\* title and year after the alt split and the tooltip fallback
TitleYearOf(anchor) ==
    LET split == IF anchor.img = <<>>
                 THEN [title |-> None, year |-> None]
                 ELSE SplitTitleYear(anchor.img[1].alt)
    IN [title |-> IF Truthy(split.title)
                  THEN split.title
                  ELSE Or(anchor.filmName, anchor.ariaLabel),
        year |-> split.year]

\* ExtractCandidate with "if title is not None" for "if title"
ExtractCandidateNoneCheck(e) ==
    IF SelectAnchor(e) = <<>>
    THEN <<>>
    ELSE LET anchor == SelectAnchor(e)[1]
             ty == TitleYearOf(anchor)
         IN IF ty.title.some
            THEN <<[title |-> ty.title.val,
                    year |-> ty.year,
                    poster |-> PosterOf(anchor),
                    link |-> LinkOf(anchor)]>>
            ELSE <<>>

\* one iteration of "for li in posters": what it appends to movies
ExtractCandidate(e) ==
    IF SelectAnchor(e) = <<>>
    THEN <<>>
    ELSE LET anchor == SelectAnchor(e)[1]
             ty == TitleYearOf(anchor)
         IN IF Truthy(ty.title)
            THEN <<[title |-> ty.title.val,
                    year |-> ty.year,
                    poster |-> PosterOf(anchor),
                    link |-> LinkOf(anchor)]>>
            ELSE <<>>

RECURSIVE ExtractAll(_)
ExtractAll(posters) ==
    IF posters = <<>>
    THEN <<>>
    ELSE ExtractCandidate(Head(posters)) \o ExtractAll(Tail(posters))

\* ------------------------------------------------------------ dedup

Cap == 250

KeyOf(m) == <<m.title, m.year>>

\* DedupStep with "len(dedup) > 250" for "len(dedup) >= 250"
DedupStepLateBreak(st, m) ==
    IF st.stopped \/ KeyOf(m) \in st.seen
    THEN st
    ELSE [seen |-> st.seen \cup {KeyOf(m)},
          dedup |-> Append(st.dedup, m),
          stopped |-> Len(st.dedup) + 1 > Cap]

\* one iteration of "for m in movies"; st.stopped is set by the break, and an
\* iteration the break has skipped changes nothing
DedupStep(st, m) ==
    IF st.stopped \/ KeyOf(m) \in st.seen
    THEN st
    ELSE [seen |-> st.seen \cup {KeyOf(m)},
          dedup |-> Append(st.dedup, m),
          stopped |-> Len(st.dedup) + 1 >= Cap]

\* the iterations for ms[lo..hi] in order, from loop state st; the range is
\* split in halves so that the evaluation stays shallow on long lists, and
\* the second half is not entered once the break has been taken
RECURSIVE DedupLoop(_, _, _, _)
DedupLoop(ms, lo, hi, st) ==
    IF lo > hi
    THEN st
    ELSE IF lo = hi
         THEN DedupStep(st, ms[lo])
         ELSE LET mid == (lo + hi) \div 2
                  left == DedupLoop(ms, lo, mid, st)
              IN IF left.stopped THEN left ELSE DedupLoop(ms, mid + 1, hi, left)

Dedup(ms) ==
    DedupLoop(ms, 1, Len(ms), [seen |-> {}, dedup |-> <<>>, stopped |-> FALSE]).dedup

\* ----------------------------------------------- candidate selection

\* (the result of the select on line 45, grid, is never read)
\* a page is the sequence of its elements in document order; an element
\* records whether it is an li.poster-container, whether it sits under a
\* ul.poster-list, and its content
SelectListed(page) ==
    SelectSeq(page, LAMBDA x : x.isPoster /\ x.inList)

SelectAny(page) ==
    SelectSeq(page, LAMBDA x : x.isPoster)

Contents(elems) == [i \in 1..Len(elems) |-> elems[i].li]

\* SelectPosters without the first selector
SelectPostersAnywhere(page) == Contents(SelectAny(page))

SelectPosters(page) ==
    IF SelectListed(page) # <<>>
    THEN Contents(SelectListed(page))
    ELSE Contents(SelectAny(page))

\* scrape_letterboxd_top250 after a 200 response with this page
Scrape(page) == Dedup(ExtractAll(SelectPosters(page)))

\* ------------------------------------------------------- the upstream

OkStatus == 200

BadGateway == 502

InternalError == 500

\* the status codes the upstream is made to answer with
Statuses == {200, 201, 299, 300, 404, 503}

\* the exceptions requests.get is made to raise (str(e) of each)
TransportErrors == {"ConnectTimeout", "ConnectionError"}

SampleImg == [alt |-> Some(<<"a", " ", "(", "1", ")">>),
              dataSrc |-> None,
              src |-> Some(<<"/", "/", "p">>)]

SampleAnchor == [href |-> Some(<<"/", "f">>), img |-> <<SampleImg>>,
                 filmName |-> None, ariaLabel |-> None]

TooltipAnchor == [href |-> None, img |-> <<>>,
                  filmName |-> Some(<<"b">>), ariaLabel |-> None]

\* an li.poster-container under a ul.poster-list, one outside any, and an
\* element no selector matches
PageElements ==
    {[isPoster |-> TRUE, inList |-> TRUE,
      li |-> [poster |-> <<SampleAnchor>>, frame |-> <<>>]],
     [isPoster |-> TRUE, inList |-> FALSE,
      li |-> [poster |-> <<>>, frame |-> <<TooltipAnchor>>]],
     [isPoster |-> FALSE, inList |-> TRUE,
      li |-> [poster |-> <<SampleAnchor>>, frame |-> <<>>]]}

Strings(alphabet, n) == UNION {[1..k -> alphabet] : k \in 0..n}

Pages == Strings(PageElements, MaxPageLen)

\* bodies sent along with a non-200 status
ErrorBodies == {p \in Pages : Len(p) <= 1 /\ \A i \in 1..Len(p) : p[i].isPoster /\ p[i].inList}

Outcomes ==
    {[kind |-> "http", status |-> OkStatus, page |-> p, text |-> ""] : p \in Pages}
    \cup {[kind |-> "http", status |-> s, page |-> p, text |-> ""] :
              s \in Statuses \ {OkStatus}, p \in ErrorBodies}
    \cup {[kind |-> "transport", status |-> 0, page |-> <<>>, text |-> t] :
              t \in TransportErrors}

NoOutcome == [kind |-> "none", status |-> 0, page |-> <<>>, text |-> ""]

\* str(n) of a natural number
RECURSIVE IntToStr(_)
IntToStr(n) ==
    LET d == <<"0", "1", "2", "3", "4", "5", "6", "7", "8", "9">>[(n % 10) + 1]
    IN IF n < 10 THEN <<d>> ELSE Append(IntToStr(n \div 10), d)

\* ------------------------------------------------------ GET /api/movies

\* two worker threads of the server's pool
Threads == {"t1", "t2"}

NoResponse == [kind |-> "none", status |-> 0, count |-> 0, results |-> <<>>, detail |-> <<>>]

\* return {"count": len(movies), "results": movies}
OkResponse(ms) ==
    [kind |-> "ok", status |-> OkStatus, count |-> Len(ms), results |-> ms, detail |-> <<>>]

\* raise HTTPException(status_code=..., detail=...)
ErrorResponse(code, detail) ==
    [kind |-> "error", status |-> code, count |-> 0, results |-> <<>>, detail |-> detail]

\* FetchFailed with "not 200 <= status < 300" for "status != 200"
FetchFailedOutside2xx(o) == o.status < 200 \/ o.status > 299

\* line 36: if resp.status_code != 200: raise HTTPException(502, ...)
FetchFailed(o) == o.status # OkStatus

\* what get_movies answers once requests.get has returned or raised o
ResponseTo(o) ==
    IF o.kind = "transport"
    THEN ErrorResponse(InternalError, <<o.text>>)
    ELSE IF FetchFailed(o)
         THEN ErrorResponse(BadGateway,
                            <<"Failed to fetch source list: ">> \o IntToStr(o.status))
         ELSE OkResponse(Scrape(o.page))

\* CacheAfter with the slot reset to an empty list when the call fails
CacheAfterResetOnError(o, old) ==
    IF o.kind = "http" /\ ~FetchFailed(o) THEN Some(Scrape(o.page)) ELSE Some(<<>>)

\* CacheAfter with the write guarded by "if the slot is still empty"
CacheAfterFirstWriteWins(o, old) ==
    IF o.kind = "http" /\ ~FetchFailed(o) /\ ~Truthy(old) THEN Some(Scrape(o.page)) ELSE old

\* the slot after that call: only the line after a returned scrape writes it
CacheAfter(o, old) ==
    IF o.kind = "http" /\ ~FetchFailed(o) THEN Some(Scrape(o.page)) ELSE old

\* line 119: if _cache["movies"]
Begin(t) ==
    /\ pc[t] = "idle"
    /\ pc' = [pc EXCEPT ![t] = IF Truthy(cache) THEN "hit" ELSE "miss"]
    /\ resp' = [resp EXCEPT ![t] = NoResponse]
    /\ got' = [got EXCEPT ![t] = NoOutcome]
    /\ UNCHANGED <<cache, fetchCount>>

\* line 120: the cached list is read again and returned
ReturnCached(t) ==
    /\ pc[t] = "hit"
    /\ resp' = [resp EXCEPT ![t] = OkResponse(cache.val)]
    /\ pc' = [pc EXCEPT ![t] = "idle"]
    /\ UNCHANGED <<cache, fetchCount, got>>

\* line 35: requests.get returns a response or raises
Fetch(t) ==
    /\ pc[t] = "miss"
    /\ fetchCount < MaxFetch
    /\ \E o \in Outcomes : got' = [got EXCEPT ![t] = o]
    /\ fetchCount' = fetchCount + 1
    /\ pc' = [pc EXCEPT ![t] = "got"]
    /\ UNCHANGED <<cache, resp>>

\* lines 36-108 and 124-129: the rest of the scrape, the slot write, the answer
Finish(t) ==
    /\ pc[t] = "got"
    /\ cache' = CacheAfter(got[t], cache)
    /\ resp' = [resp EXCEPT ![t] = ResponseTo(got[t])]
    /\ pc' = [pc EXCEPT ![t] = "idle"]
    /\ UNCHANGED <<fetchCount, got>>

ApiInit ==
    /\ cache = None
    /\ fetchCount = 0
    /\ pc = [t \in Threads |-> "idle"]
    /\ got = [t \in Threads |-> NoOutcome]
    /\ resp = [t \in Threads |-> NoResponse]

ApiOff == UNCHANGED <<cache, fetchCount, pc, got, resp>>

PureInit ==
    /\ alt = None
    /\ parsed = <<>>
    /\ li = [poster |-> <<>>, frame |-> <<>>]
    /\ record = <<>>
    /\ movies = <<>>
    /\ dedup = None

PureOff == UNCHANGED <<alt, parsed, li, record, movies, dedup>>

Init == ApiInit /\ PureInit

Next ==
    \/ \E t \in Threads : Begin(t) /\ PureOff
    \/ \E t \in Threads : ReturnCached(t) /\ PureOff
    \/ \E t \in Threads : Fetch(t) /\ PureOff
    \/ \E t \in Threads : Finish(t) /\ PureOff

\* requests handled by the thread pool, in any interleaving
Spec == Init /\ [][Next]_vars

Quiet == \A t \in Threads : pc[t] = "idle"

NextSeq ==
    \/ \E t \in Threads : Quiet /\ Begin(t) /\ PureOff
    \/ \E t \in Threads : ReturnCached(t) /\ PureOff
    \/ \E t \in Threads : Fetch(t) /\ PureOff
    \/ \E t \in Threads : Finish(t) /\ PureOff

\* one request at a time: a call starts only when no other is in progress
SpecSeq == Init /\ [][NextSeq]_vars

\* ------------------------------------- the title / year split on its own

Alphabet == {"a", "1", " ", "\t", "(", ")"}

\* the two alt texts the documentation gives as examples
ExampleAlts ==
    {<<"M", "o", "v", "i", "e", " ", "T", "i", "t", "l", "e", " ", "(", "1", "9", "9", "4", ")">>,
     <<"M", "o", "v", "i", "e", " ", "T", "i", "t", "l", "e">>}

AltTexts(n) == {None} \cup {Some(s) : s \in Strings(Alphabet, n) \cup ExampleAlts}

ParseInit ==
    /\ ApiInit
    /\ alt \in AltTexts(MaxAltLen)
    /\ parsed = <<>>
    /\ li = [poster |-> <<>>, frame |-> <<>>]
    /\ record = <<>>
    /\ movies = <<>>
    /\ dedup = None

\* lines 67-75 applied to the alt text
ParseAlt ==
    /\ parsed = <<>>
    /\ parsed' = <<SplitTitleYear(alt)>>
    /\ UNCHANGED <<alt, li, record, movies, dedup>>
    /\ ApiOff

SpecParse == ParseInit /\ [][ParseAlt]_vars

\* ------------------------------------------ field extraction on its own

ExtractAlphabet == {"a", " ", "(", ")"}

ExtractAlts(n) == {None} \cup {Some(s) : s \in Strings(ExtractAlphabet, n)}

\* anchors that vary where the title can come from
TitleAnchors(n) ==
    {[href |-> Some(<<"/", "f">>), img |-> i, filmName |-> f, ariaLabel |-> l] :
        i \in {<<>>} \cup {<<[alt |-> a, dataSrc |-> None, src |-> Some(<<"r">>)]>> :
                               a \in ExtractAlts(n)},
        f \in {None, Some(<<>>), Some(<<"F">>)},
        l \in {None, Some(<<>>), Some(<<"L">>)}}

\* anchors that vary the href and the image sources
LinkAnchors ==
    {[href |-> h, img |-> <<[alt |-> Some(<<"a">>), dataSrc |-> d, src |-> r]>>,
      filmName |-> None, ariaLabel |-> None] :
        h \in {None, Some(<<>>), Some(<<"/", "f">>), Some(<<"h">>)},
        d \in {None, Some(<<>>), Some(<<"/", "/", "d">>), Some(<<"d">>)},
        r \in {None, Some(<<"/", "/", "r">>), Some(<<"r">>)}}

Anchors(n) == TitleAnchors(n) \cup LinkAnchors

\* a second anchor beside the one under test
OtherAnchors == {<<>>, <<TooltipAnchor>>}

Candidates(n) ==
    {[poster |-> p, frame |-> f] :
        p \in {<<>>} \cup {<<x>> : x \in Anchors(n)}, f \in OtherAnchors}
    \cup {[poster |-> <<>>, frame |-> <<x>>] : x \in Anchors(n)}

ExtractInit ==
    /\ ApiInit
    /\ li \in Candidates(MaxExtractAltLen)
    /\ record = <<>>
    /\ alt = None
    /\ parsed = <<>>
    /\ movies = <<>>
    /\ dedup = None

\* lines 53-94 applied to the candidate; record holds <<what was appended>>
ExtractLi ==
    /\ record = <<>>
    /\ record' = <<ExtractCandidate(li)>>
    /\ UNCHANGED <<alt, parsed, li, movies, dedup>>
    /\ ApiOff

SpecExtract == ExtractInit /\ [][ExtractLi]_vars

\* ---------------------------------------------------- dedup on its own

SmallMovies ==
    {[title |-> t, year |-> y, poster |-> None, link |-> l] :
        t \in {<<"a">>, <<"b">>},
        y \in {None, Some(<<"1">>)},
        l \in {<<"x">>, <<"y">>}}

\* n records whose titles cycle through m different ones
LongMovies(n, m) ==
    [i \in 1..n |-> [title |-> IntToStr((i - 1) % m), year |-> None,
                     poster |-> None, link |-> IntToStr(i)]]

LongSizes(slack) == {n \in 1..(Cap + slack) : n + slack >= Cap}

MovieLists(len, slack) ==
    Strings(SmallMovies, len)
    \cup {LongMovies(n, m) : n \in LongSizes(slack), m \in LongSizes(slack)}

DedupInit ==
    /\ ApiInit
    /\ movies \in MovieLists(MaxMovies, LongSlack)
    /\ dedup = None
    /\ alt = None
    /\ parsed = <<>>
    /\ li = [poster |-> <<>>, frame |-> <<>>]
    /\ record = <<>>

\* lines 97-108 applied to the list
RunDedup ==
    /\ dedup = None
    /\ dedup' = Some(Dedup(movies))
    /\ UNCHANGED <<alt, parsed, li, record, movies>>
    /\ ApiOff

SpecDedup == DedupInit /\ [][RunDedup]_vars

\* =================================================================
\* Properties
\* =================================================================

Min(S) == CHOOSE x \in S : \A y \in S : x <= y

Max(S) == CHOOSE x \in S : \A y \in S : x >= y

\* s without its longest prefix and suffix made of characters of chars
Trimmed(s, chars) ==
    LET keep == {i \in 1..Len(s) : s[i] \notin chars}
    IN IF keep = {} THEN <<>> ELSE SubSeq(s, Min(keep), Max(keep))

\* the text before, and after, the last "(" of s
BeforeLastParen(s) == SubSeq(s, 1, Max({i \in 1..Len(s) : s[i] = "("}) - 1)

AfterLastParen(s) == SubSeq(s, Max({i \in 1..Len(s) : s[i] = "("}) + 1, Len(s))

HasYearShape(s) == s # <<>> /\ s[Len(s)] = ")" /\ \E i \in 1..Len(s) : s[i] = "("

\* ---- C8 (as stated; refuted) --------------------------------------------
\* C8: for every alt text that ends with ")" and contains "(", the title is
\* the part before the last "(" with surrounding whitespace trimmed and the
\* year is the part after it with parentheses and whitespace trimmed;
\* otherwise the whole text is the title and the year is absent.
C8_SplitTrimsParensAndWhitespace ==
    (parsed # <<>> /\ alt.some) =>
        IF HasYearShape(alt.val)
        THEN /\ parsed[1].title = Some(Trimmed(BeforeLastParen(alt.val), Whitespace))
             /\ parsed[1].year =
                    Some(Trimmed(AfterLastParen(alt.val), Whitespace \cup {"(", ")"}))
        ELSE /\ parsed[1].title = alt
             /\ parsed[1].year = None

\* ---- C9 (as stated; refuted) --------------------------------------------
\* C9: in every record the year is absent or a string of exactly four
\* numeric characters.
Digits == {"0", "1", "2", "3", "4", "5", "6", "7", "8", "9"}

C9_YearAbsentOrFourDigits ==
    record # <<>> =>
        \A i \in 1..Len(record[1]) :
            LET y == record[1][i].year
            IN y.some => (Len(y.val) = 4 /\ \A k \in 1..4 : y.val[k] \in Digits)

\* ---- C6 -----------------------------------------------------------------
\* the title the alt text of the chosen anchor's image offers, "" when none
AltTitleOf(anchor) ==
    IF anchor.img = <<>> \/ ~anchor.img[1].alt.some
    THEN <<>>
    ELSE LET a == anchor.img[1].alt.val
         IN IF HasYearShape(a) THEN Trimmed(BeforeLastParen(a), Whitespace) ELSE a

\* no title source of the anchor is non-empty
NoTitleAvailable(anchor) ==
    /\ AltTitleOf(anchor) = <<>>
    /\ anchor.filmName.val = <<>>
    /\ anchor.ariaLabel.val = <<>>

\* C6: every emitted record has a non-empty title, and a candidate with no
\* anchor, or with no non-empty title after all fallbacks, emits no record.
C6_RecordsHaveTitles ==
    record # <<>> =>
        /\ \A i \in 1..Len(record[1]) : record[1][i].title # <<>>
        /\ (li.poster = <<>> /\ li.frame = <<>>) => record[1] = <<>>
        /\ (li.poster # <<>> /\ NoTitleAvailable(li.poster[1])) => record[1] = <<>>
        /\ (li.poster = <<>> /\ li.frame # <<>> /\ NoTitleAvailable(li.frame[1]))
               => record[1] = <<>>

\* the alt text is "(a)"-like: nothing before the parenthesis, so the title
\* comes from data-film-name, and a record is emitted
C6_Witness ==
    /\ record # <<>>
    /\ li.poster # <<>>
    /\ li.poster[1].img # <<>>
    /\ li.poster[1].img[1].alt = Some(<<"(", "a", ")">>)
    /\ li.poster[1].filmName = Some(<<"F">>)
    /\ Len(record[1]) = 1
    /\ record[1][1].title = <<"F">>

\* ---- C5 -----------------------------------------------------------------
IsFirstOccurrence(ms, i) == \A j \in 1..(i - 1) : KeyOf(ms[j]) # KeyOf(ms[i])

\* the records of ms whose key no earlier record has, in order
FirstOccurrences(ms) ==
    LET indexed == [i \in 1..Len(ms) |-> <<i, ms[i]>>]
        kept == SelectSeq(indexed, LAMBDA p : IsFirstOccurrence(ms, p[1]))
    IN [k \in 1..Len(kept) |-> kept[k][2]]

Take(s, n) == SubSeq(s, 1, IF Len(s) < n THEN Len(s) ELSE n)

\* C5: the dedup result is the subsequence of first occurrences of each
\* (title, year) key, in order, cut to its first 250 elements; so no two of
\* its records share a key and it holds at most 250 records.
C5_DedupKeepsFirstOccurrences ==
    dedup.some =>
        /\ dedup.val = Take(FirstOccurrences(movies), Cap)
        /\ Len(dedup.val) <= Cap
        /\ \A i, j \in 1..Len(dedup.val) :
               KeyOf(dedup.val[i]) = KeyOf(dedup.val[j]) => i = j

\* more than 250 different keys, with repeats among them: the cut happens
C5_Witness ==
    /\ dedup.some
    /\ Len(FirstOccurrences(movies)) > Cap
    /\ Len(FirstOccurrences(movies)) < Len(movies)
    /\ Len(dedup.val) = Cap

\* ---- GET /api/movies ----------------------------------------------------

\* thread t has just answered a call that went to the upstream
Answered(t) == pc[t] = "idle" /\ got[t].kind # "none"

\* thread t completes, in this step, a call that went to the upstream
Completes(t) == pc[t] = "got" /\ pc'[t] = "idle"

DigitValue(c) == CHOOSE k \in 0..9 : IntToStr(k) = <<c>>

\* the number a run of decimal digits writes
RECURSIVE DecimalValue(_)
DecimalValue(ds) ==
    IF ds = <<>>
    THEN 0
    ELSE 10 * DecimalValue(SubSeq(ds, 1, Len(ds) - 1)) + DigitValue(ds[Len(ds)])

\* the text holds the number n written in decimal
Mentions(text, n) ==
    \E i \in 1..Len(text) : \E j \in i..Len(text) :
        /\ \A k \in i..j : text[k] \in Digits
        /\ DecimalValue(SubSeq(text, i, j)) = n

\* ---- C1 (as stated; refuted) --------------------------------------------
\* C1: in a sequential run, once a call has completed a successful
\* extraction (whatever the length of its result), no later step fetches
\* again or changes the slot, and a call that answers, answers with the
\* held result.
C1_PopulatedSlotIsReused ==
    [][cache.some =>
          /\ fetchCount' = fetchCount
          /\ cache' = cache
          /\ \A t \in Threads :
                 (pc[t] # "idle" /\ pc'[t] = "idle") => resp'[t] = OkResponse(cache.val)]_vars

\* ---- C2 -----------------------------------------------------------------
\* the extraction failed: the transport failed or the status is not 2xx
ExtractionFails(o) == o.kind = "transport" \/ o.status < 200 \/ o.status > 299

\* C2: a call whose extraction fails leaves the slot as it was and ends in
\* an error response; no call that ends in an error writes the slot; and a
\* call that starts on an empty slot goes to the upstream.
C2_FailedCallLeavesSlot ==
    [][\A t \in Threads :
          /\ (Completes(t) /\ ExtractionFails(got[t]))
                 => (resp'[t].kind = "error" /\ cache' = cache)
          /\ (Completes(t) /\ resp'[t].kind = "error") => cache' = cache
          /\ (pc[t] = "idle" /\ pc'[t] # "idle" /\ ~cache.some) => pc'[t] = "miss"]_vars

\* after a failed call on the empty slot, a later call is at the upstream again
C2_Witness ==
    /\ ~cache.some
    /\ Answered("t1") /\ resp["t1"].kind = "error"
    /\ pc["t2"] = "got"
    /\ fetchCount = 2

\* ---- C3 -----------------------------------------------------------------
\* C3 (as stated; refuted): a call fails with 502 and the status in its
\* detail exactly when the upstream status is outside 200..299, and otherwise
\* proceeds to extraction and answers with its result.
C3_FailsExactlyOutside2xx ==
    \A t \in Threads :
        (Answered(t) /\ got[t].kind = "http") =>
            IF got[t].status >= 200 /\ got[t].status <= 299
            THEN resp[t].kind = "ok"
            ELSE /\ resp[t].kind = "error"
                 /\ resp[t].status = BadGateway
                 /\ Mentions(resp[t].detail, got[t].status)

\* C3 (amended): a call fails with 502 and the status in its detail exactly
\* when the upstream status is not 200; on 200 it proceeds to extraction and
\* answers with its result.
C3_FailsExactlyOutside200 ==
    \A t \in Threads :
        (Answered(t) /\ got[t].kind = "http") =>
            IF got[t].status = 200
            THEN resp[t].kind = "ok"
            ELSE /\ resp[t].kind = "error"
                 /\ resp[t].status = BadGateway
                 /\ Mentions(resp[t].detail, got[t].status)

\* the upstream answered 2xx but not 200, and the call failed with 502
C3_Witness ==
    \E t \in Threads :
        /\ Answered(t)
        /\ got[t].kind = "http"
        /\ got[t].status > 200 /\ got[t].status <= 299
        /\ resp[t].status = BadGateway

\* ---- C4 (as stated; refuted) --------------------------------------------
\* C4: a transport failure is answered with 502 carrying the error text.
C4_TransportFailureIsBadGateway ==
    \A t \in Threads :
        (Answered(t) /\ got[t].kind = "transport") =>
            /\ resp[t].kind = "error"
            /\ resp[t].status = BadGateway
            /\ \E i \in 1..Len(resp[t].detail) : resp[t].detail[i] = got[t].text

\* ---- C7 -----------------------------------------------------------------
\* the elements the first selector of the list that matches any gives
FirstMatch(selections) ==
    IF \A i \in 1..Len(selections) : selections[i] = <<>>
    THEN <<>>
    ELSE selections[Min({i \in 1..Len(selections) : selections[i] # <<>>})]

\* C7: on a 200 the answer is built from the elements of the first selector
\* that matches any (poster-container items under a poster-list, then
\* poster-container items anywhere), and when neither matches the call
\* succeeds with an empty list and count 0.
C7_FirstMatchWins ==
    \A t \in Threads :
        (Answered(t) /\ got[t].kind = "http" /\ got[t].status = OkStatus) =>
            LET page == got[t].page
                chosen == FirstMatch(<<SelectSeq(page, LAMBDA x : x.isPoster /\ x.inList),
                                       SelectSeq(page, LAMBDA x : x.isPoster)>>)
            IN /\ resp[t].kind = "ok"
               /\ resp[t].results = Dedup(ExtractAll([i \in 1..Len(chosen) |-> chosen[i].li]))
               /\ resp[t].count = Len(resp[t].results)
               /\ (\A i \in 1..Len(page) : ~page[i].isPoster)
                      => (resp[t].results = <<>> /\ resp[t].count = 0)

\* a 200 whose page has elements, none a poster-container: count 0, no error
C7_Witness ==
    \E t \in Threads :
        /\ Answered(t)
        /\ got[t].status = OkStatus
        /\ got[t].page # <<>>
        /\ \A i \in 1..Len(got[t].page) : ~got[t].page[i].isPoster
        /\ resp[t] = OkResponse(<<>>)
        /\ cache = Some(<<>>)

\* ---- C10 ----------------------------------------------------------------
\* C10: the slot has no guard: a call that completes a successful extraction
\* writes its own result to the slot whatever the slot holds by then, so the
\* last writer's result stays.
C10_LastWriteWins ==
    [][\A t \in Threads :
          (Completes(t) /\ got[t].kind = "http" /\ got[t].status = OkStatus)
              => cache' = Some(resp'[t].results)]_vars

\* two calls raced on the cold slot: two fetches, two different non-empty
\* results answered, and the slot holds the second writer's
C10_Witness ==
    \E t, u \in Threads :
        /\ t # u
        /\ Answered(t) /\ Answered(u)
        /\ resp[t].kind = "ok" /\ resp[u].kind = "ok"
        /\ resp[t].results # <<>> /\ resp[u].results # <<>>
        /\ resp[t].results # resp[u].results
        /\ fetchCount = 2
        /\ cache = Some(resp[u].results)

====
